---- MODULE Spec2Model ----
(***************************************************************************)
(* Model of nso_restconf.py: the NsoRestConf RESTCONF client, the demo     *)
(* driver main(), and the orchestrator the client talks to.                *)
(*                                                                         *)
(* A URL (a Python f-string) is the sequence of its literal pieces and     *)
(* substituted values.  A JSON text is [text, doc]: json.dumps wraps a     *)
(* document, response.json() unwraps it and raises on a body that is not   *)
(* JSON.  Documents are functions over string keys.                        *)
(***************************************************************************)
EXTENDS Integers, Sequences, FiniteSets, TLC

VARIABLES pc, nso, device_list, response, stdout, exception, server, calls

vars == <<pc, nso, device_list, response, stdout, exception, server, calls>>

\* ---------------------------------------------------------------- bounds
MaxDevices == 2
MaxLoopbacks == 2
MaxCalls == 2

\* ------------------------------------------------------------- utilities
Range(s) == { s[i] : i \in 1..Len(s) }

Last(s) == s[Len(s)]

RemoveAt(s, i) == SubSeq(s, 1, i - 1) \o SubSeq(s, i + 1, Len(s))

Injective(s) == \A i, j \in 1..Len(s) : s[i] = s[j] => i = j

InjectiveSeqs(S, n) ==
  UNION { { s \in [1..k -> S] : Injective(s) } : k \in 0..n }

Names(s) == { s[i].name : i \in 1..Len(s) }

IndexOf(s, name) == CHOOSE i \in 1..Len(s) : s[i].name = name

\* ------------------------------------------------------------------ JSON
EmptyDoc == [k \in {} |-> ""]

json_dumps(doc) == [text |-> "json", doc |-> doc]

NoData == [text |-> "empty", doc |-> EmptyDoc]

IsJson(body) == body.text = "json"

\* ------------------------------------------------------------ HTTP types
Response(status_code, body) == [status_code |-> status_code, body |-> body]

NoResponse == Response(0, NoData)

Is2xx(status_code) == status_code >= 200 /\ status_code < 300

ErrorsBody(tag) ==
  json_dumps("ietf-restconf:errors" :> [error |-> <<[error_tag |-> tag]>>])

\* --------------------------------------------------- the orchestrator
\* Loopback objects are stored as the JSON documents the client posts.
Loopback(name, address, mask) ==
  [name |-> name,
   ip |-> [address |-> [primary |-> [address |-> address, mask |-> mask]]]]

Path(req) == SubSeq(req.url, 6, Len(req.url))

Reply(srv, status_code, body) ==
  [response |-> Response(status_code, body), srv |-> srv]

NotFound(srv) == { Reply(srv, 404, ErrorsBody("invalid-value")) }

WithDevices(srv, devices) == [srv EXCEPT !.devices = devices]

WithLoopbacks(srv, i, loopbacks) ==
  [srv EXCEPT !.devices[i].loopbacks = loopbacks]

ListDevices(srv) ==
  LET arr == [i \in 1..Len(srv.devices) |->
                [name |-> srv.devices[i].name,
                 address |-> srv.devices[i].address,
                 port |-> srv.devices[i].port,
                 authgroup |-> srv.devices[i].authgroup]]
  IN { Reply(srv, 200, json_dumps("tailf-ncs:device" :> arr)) }

DeleteDevice(srv, name) ==
  IF name \in Names(srv.devices)
  THEN { Reply(WithDevices(srv, RemoveAt(srv.devices, IndexOf(srv.devices, name))),
               204, NoData) }
  ELSE NotFound(srv)

PostDevice(srv, data) ==
  IF ~IsJson(data) \/ "tailf-ncs:device" \notin DOMAIN data.doc
  THEN { Reply(srv, 400, ErrorsBody("malformed-message")) }
  ELSE LET d == data.doc["tailf-ncs:device"]
       IN IF d.name \in Names(srv.devices)
          THEN { Reply(srv, 409, ErrorsBody("data-exists")) }
          ELSE { Reply(WithDevices(srv, Append(srv.devices,
                   [name |-> d.name, address |-> d.address, port |-> d.port,
                    authgroup |-> d.authgroup,
                    ned_id |-> d["device-type"].cli["ned-id"],
                    admin_state |-> d.state["admin-state"],
                    loopbacks |-> <<>>])),
                   201, NoData) }

FetchHostKeys(srv, name) ==
  IF name \in Names(srv.devices)
  THEN { Reply(srv, 200, json_dumps("tailf-ncs:output" :> [result |-> r]))
           : r \in {"updated", "failed"} }
  ELSE NotFound(srv)

SyncFromDevice(srv, name) ==
  IF name \in Names(srv.devices)
  THEN { Reply(WithLoopbacks(srv, IndexOf(srv.devices, name), srv.netsim),
               200, json_dumps("tailf-ncs:output" :> [result |-> TRUE])),
         Reply(srv, 200, json_dumps("tailf-ncs:output" :> [result |-> FALSE])) }
  ELSE NotFound(srv)

ListLoopbacks(srv, name) ==
  IF name \in Names(srv.devices)
  THEN { Reply(srv, 200,
               json_dumps("tailf-ned-cisco-ios:Loopback" :>
                            srv.devices[IndexOf(srv.devices, name)].loopbacks)) }
  ELSE NotFound(srv)

PostLoopback(srv, name, data) ==
  IF name \notin Names(srv.devices) THEN NotFound(srv)
  ELSE IF ~IsJson(data) \/ "tailf-ned-cisco-ios:Loopback" \notin DOMAIN data.doc
  THEN { Reply(srv, 400, ErrorsBody("malformed-message")) }
  ELSE LET i == IndexOf(srv.devices, name)
           lo == data.doc["tailf-ned-cisco-ios:Loopback"]
       IN IF lo.name \in Names(srv.devices[i].loopbacks)
          THEN { Reply(srv, 409, ErrorsBody("data-exists")) }
          ELSE { Reply(WithLoopbacks(srv, i, Append(srv.devices[i].loopbacks, lo)),
                       201, NoData) }

PatchLoopbackAddress(srv, name, loopback_name, data) ==
  IF name \notin Names(srv.devices) THEN NotFound(srv)
  ELSE LET i == IndexOf(srv.devices, name)
           los == srv.devices[i].loopbacks
       IN IF loopback_name \notin Names(los) THEN NotFound(srv)
          ELSE IF ~IsJson(data) \/ DOMAIN data.doc # {"tailf-ned-cisco-ios:address"}
          THEN { Reply(srv, 400, ErrorsBody("malformed-message")) }
          ELSE LET j == IndexOf(los, loopback_name)
                   v == data.doc["tailf-ned-cisco-ios:address"]
               IN { Reply(WithLoopbacks(srv, i,
                            [los EXCEPT ![j].ip.address.primary.address = v]),
                          204, NoData) }

DeleteLoopback(srv, name, loopback_name) ==
  IF name \notin Names(srv.devices) THEN NotFound(srv)
  ELSE LET i == IndexOf(srv.devices, name)
           los == srv.devices[i].loopbacks
       IN IF loopback_name \notin Names(los) THEN NotFound(srv)
          ELSE { Reply(WithLoopbacks(srv, i, RemoveAt(los, IndexOf(los, loopback_name))),
                       204, NoData) }

\* Dispatch of a request on its method and path.
Backend(srv, req) ==
  LET p == Path(req)
      m == req.method
      n == Len(p)
  IN IF n = 1 /\ p[1] = "/data/tailf-ncs:devices/device?depth=1" /\ m = "GET"
       THEN ListDevices(srv)
     ELSE IF n = 1 /\ p[1] = "/data/tailf-ncs:devices" /\ m = "POST"
       THEN PostDevice(srv, req.data)
     ELSE IF n = 2 /\ p[1] = "/data/tailf-ncs:devices/device=" /\ m = "DELETE"
       THEN DeleteDevice(srv, p[2])
     ELSE IF n = 3 /\ p[1] = "/operations/devices/device="
                   /\ p[3] = "/ssh/fetch-host-keys" /\ m = "POST"
       THEN FetchHostKeys(srv, p[2])
     ELSE IF n = 3 /\ p[1] = "/operations/devices/device="
                   /\ p[3] = "/sync-from" /\ m = "POST"
       THEN SyncFromDevice(srv, p[2])
     ELSE IF n = 3 /\ p[1] = "/data/tailf-ncs:devices/device="
                   /\ p[3] = "/config/tailf-ned-cisco-ios:interface/Loopback"
                   /\ m = "GET"
       THEN ListLoopbacks(srv, p[2])
     ELSE IF n = 3 /\ p[1] = "/data/tailf-ncs:devices/device="
                   /\ p[3] = "/config/tailf-ned-cisco-ios:interface" /\ m = "POST"
       THEN PostLoopback(srv, p[2], req.data)
     ELSE IF n = 5 /\ p[1] = "/data/tailf-ncs:devices/device="
                   /\ p[3] = "/config/tailf-ned-cisco-ios:interface/Loopback="
                   /\ p[5] = "/ip/address/primary/address" /\ m = "PATCH"
       THEN PatchLoopbackAddress(srv, p[2], p[4], req.data)
     ELSE IF n = 4 /\ p[1] = "/data/tailf-ncs:devices/device="
                   /\ p[3] = "/config/tailf-ned-cisco-ios:interface/Loopback="
                   /\ m = "DELETE"
       THEN DeleteLoopback(srv, p[2], p[4])
     ELSE NotFound(srv)

\* ------------------------------------------------------------ transport
\* One call of requests.get/post/patch/delete: the connection fails and the
\* call raises, or the server fails internally, or the server handles the
\* request.
requests_request(srv, req) ==
  { [fault |-> "transport", raised |-> "ConnectionError",
     response |-> NoResponse, srv |-> srv],
    [fault |-> "server_error", raised |-> "none",
     response |-> Response(500, ErrorsBody("operation-failed")), srv |-> srv] }
  \cup { [fault |-> "none", raised |-> "none",
          response |-> b.response, srv |-> b.srv] : b \in Backend(srv, req) }

Exchange(o) == [fault |-> o.fault, response |-> o.response]

\* --------------------------------------------------------------- client
NsoRestConf(username, password, hostname, port) ==
  [base_url |-> <<"http://", hostname, ":", port, "/restconf">>,
   auth |-> [username |-> username, password |-> password],
   headers |-> ("Content-Type" :> "application/yang-data+json")]

Request(self, method, url, data) ==
  [method |-> method, url |-> url, data |-> data,
   auth |-> self.auth, headers |-> self.headers]

\* What a method that returns the raw response hands back for outcome o.
Returned(self, req, o) ==
  [sent |-> <<req>>, received |-> <<Exchange(o)>>, raised |-> o.raised,
   value |-> o.response, srv |-> o.srv, self |-> self]

\* response.json()[key] as a list, for a method that extracts an array.
Extracted(self, req, o, key, list) ==
  [sent |-> <<req>>, received |-> <<Exchange(o)>>,
   raised |-> IF o.raised # "none" THEN o.raised
              ELSE IF ~IsJson(o.response.body) THEN "JSONDecodeError"
              ELSE IF key \notin DOMAIN o.response.body.doc THEN "KeyError"
              ELSE "none",
   value |-> IF o.raised = "none" /\ IsJson(o.response.body)
                /\ key \in DOMAIN o.response.body.doc
             THEN list ELSE <<>>,
   srv |-> o.srv, self |-> self]

\* Variant of get_device_list: the names come out last entry first.
get_device_list_reversed(self, srv) ==
  LET url == self.base_url \o <<"/data/tailf-ncs:devices/device?depth=1">>
      req == Request(self, "GET", url, NoData)
  IN { LET arr == o.response.body.doc["tailf-ncs:device"]
       IN Extracted(self, req, o, "tailf-ncs:device",
                    [i \in 1..Len(arr) |-> arr[Len(arr) + 1 - i].name])
       : o \in requests_request(srv, req) }

get_device_list(self, srv) ==
  LET url == self.base_url \o <<"/data/tailf-ncs:devices/device?depth=1">>
      req == Request(self, "GET", url, NoData)
  IN { LET arr == o.response.body.doc["tailf-ncs:device"]
       IN Extracted(self, req, o, "tailf-ncs:device",
                    [i \in 1..Len(arr) |-> arr[i].name])
       : o \in requests_request(srv, req) }

\* Variant of delete_device: a request answered with a status that is not
\* 2xx is sent a second time.
delete_device_retry(self, srv, name) ==
  LET url == self.base_url \o <<"/data/tailf-ncs:devices/device=", name>>
      req == Request(self, "DELETE", url, NoData)
  IN UNION {
       IF o.raised = "none" /\ ~Is2xx(o.response.status_code)
       THEN { [sent |-> <<req, req>>, received |-> <<Exchange(o), Exchange(o2)>>,
               raised |-> o2.raised, value |-> o2.response, srv |-> o2.srv,
               self |-> self] : o2 \in requests_request(o.srv, req) }
       ELSE { Returned(self, req, o) }
       : o \in requests_request(srv, req) }

delete_device(self, srv, name) ==
  LET url == self.base_url \o <<"/data/tailf-ncs:devices/device=", name>>
      req == Request(self, "DELETE", url, NoData)
  IN { Returned(self, req, o) : o \in requests_request(srv, req) }

\* Variant of create_device: "already exists" is reported as success.
create_device_idempotent(self, srv, name, address, port, authgroup, ned) ==
  LET data == "tailf-ncs:device" :>
                ([name |-> name, address |-> address, port |-> port,
                  authgroup |-> authgroup,
                  state |-> ("admin-state" :> "unlocked")]
                 @@ ("device-type" :> [cli |-> ("ned-id" :> <<ned, ":", ned>>)]))
      url == self.base_url \o <<"/data/tailf-ncs:devices">>
      req == Request(self, "POST", url, json_dumps(data))
  IN { IF o.raised = "none" /\ o.response.status_code = 409
       THEN [Returned(self, req, o) EXCEPT !.value = Response(200, NoData)]
       ELSE Returned(self, req, o)
       : o \in requests_request(srv, req) }

create_device(self, srv, name, address, port, authgroup, ned) ==
  LET data == "tailf-ncs:device" :>
                ([name |-> name, address |-> address, port |-> port,
                  authgroup |-> authgroup,
                  state |-> ("admin-state" :> "unlocked")]
                 @@ ("device-type" :> [cli |-> ("ned-id" :> <<ned, ":", ned>>)]))
      data_json == json_dumps(data)
      url == self.base_url \o <<"/data/tailf-ncs:devices">>
      req == Request(self, "POST", url, data_json)
  IN { Returned(self, req, o) : o \in requests_request(srv, req) }

ssh_fetch_keys(self, srv, name) ==
  LET url == self.base_url
               \o <<"/operations/devices/device=", name, "/ssh/fetch-host-keys">>
      req == Request(self, "POST", url, NoData)
  IN { Returned(self, req, o) : o \in requests_request(srv, req) }

\* Variant of sync_from: response.raise_for_status() before returning.
sync_from_raise_for_status(self, srv, name) ==
  LET url == self.base_url
               \o <<"/operations/devices/device=", name, "/sync-from">>
      req == Request(self, "POST", url, NoData)
  IN { IF o.raised = "none" /\ ~Is2xx(o.response.status_code)
       THEN [Returned(self, req, o) EXCEPT !.raised = "HTTPError"]
       ELSE Returned(self, req, o)
       : o \in requests_request(srv, req) }

sync_from(self, srv, name) ==
  LET url == self.base_url
               \o <<"/operations/devices/device=", name, "/sync-from">>
      req == Request(self, "POST", url, NoData)
  IN { Returned(self, req, o) : o \in requests_request(srv, req) }

get_device_loopbacks(self, srv, name) ==
  LET url == self.base_url
               \o <<"/data/tailf-ncs:devices/device=", name,
                    "/config/tailf-ned-cisco-ios:interface/Loopback">>
      req == Request(self, "GET", url, NoData)
      key == "tailf-ned-cisco-ios:Loopback"
  IN { LET arr == o.response.body.doc[key]
       IN Extracted(self, req, o, key, [i \in 1..Len(arr) |-> arr[i]])
       : o \in requests_request(srv, req) }

\* Variant of create_device_loopbacks: address and mask change places.
create_device_loopbacks_swapped(self, srv, device_name, loopback_name, ip, subnet) ==
  LET data == "tailf-ned-cisco-ios:Loopback" :>
                [name |-> loopback_name,
                 ip |-> [address |-> [primary |->
                           [address |-> subnet, mask |-> ip]]]]
      url == self.base_url
               \o <<"/data/tailf-ncs:devices/device=", device_name,
                    "/config/tailf-ned-cisco-ios:interface">>
      req == Request(self, "POST", url, json_dumps(data))
  IN { Returned(self, req, o) : o \in requests_request(srv, req) }

create_device_loopbacks(self, srv, device_name, loopback_name, ip, subnet) ==
  LET data == "tailf-ned-cisco-ios:Loopback" :>
                [name |-> loopback_name,
                 ip |-> [address |-> [primary |->
                           [address |-> ip, mask |-> subnet]]]]
      url == self.base_url
               \o <<"/data/tailf-ncs:devices/device=", device_name,
                    "/config/tailf-ned-cisco-ios:interface">>
      req == Request(self, "POST", url, json_dumps(data))
  IN { Returned(self, req, o) : o \in requests_request(srv, req) }

\* Variant of update_device_loopback_ip: the PATCH sets its own content type
\* in the headers the client keeps.
update_device_loopback_ip_own_headers(self, srv, device_name, loopback_name, ip) ==
  LET data == "tailf-ned-cisco-ios:address" :> ip
      patching == [self EXCEPT !.headers =
                     ("Content-Type" :> "application/yang-patch+json")]
      url == self.base_url
               \o <<"/data/tailf-ncs:devices/device=", device_name,
                    "/config/tailf-ned-cisco-ios:interface/Loopback=",
                    loopback_name, "/ip/address/primary/address">>
      req == Request(patching, "PATCH", url, json_dumps(data))
  IN { Returned(patching, req, o) : o \in requests_request(srv, req) }

update_device_loopback_ip(self, srv, device_name, loopback_name, ip) ==
  LET data == "tailf-ned-cisco-ios:address" :> ip
      url == self.base_url
               \o <<"/data/tailf-ncs:devices/device=", device_name,
                    "/config/tailf-ned-cisco-ios:interface/Loopback=",
                    loopback_name, "/ip/address/primary/address">>
      req == Request(self, "PATCH", url, json_dumps(data))
  IN { Returned(self, req, o) : o \in requests_request(srv, req) }

\* Variant of delete_device_loopback: the two names change places in the URL.
delete_device_loopback_swapped(self, srv, device_name, loopback_name) ==
  LET url == self.base_url
               \o <<"/data/tailf-ncs:devices/device=", loopback_name,
                    "/config/tailf-ned-cisco-ios:interface/Loopback=",
                    device_name>>
      req == Request(self, "DELETE", url, NoData)
  IN { Returned(self, req, o) : o \in requests_request(srv, req) }

delete_device_loopback(self, srv, device_name, loopback_name) ==
  LET url == self.base_url
               \o <<"/data/tailf-ncs:devices/device=", device_name,
                    "/config/tailf-ned-cisco-ios:interface/Loopback=",
                    loopback_name>>
      req == Request(self, "DELETE", url, NoData)
  IN { Returned(self, req, o) : o \in requests_request(srv, req) }

\* --------------------------------------------------------------- driver
new_device ==
  [name |-> "ios1", address |-> "127.0.0.1", port |-> "10023",
   authgroup |-> "netsim_auth", ned |-> "cisco-ios-cli-3.8"]

new_loopback ==
  [device_name |-> "ios1", loopback_name |-> "50", ip |-> "10.11.50.1",
   subnet |-> "255.255.255.255"]

NoClient == [unbound |-> TRUE]

\* Variant of Statements: the sync is started before the host keys are fetched.
Statements_sync_first ==
  <<"nso", "get_device_list", "if", "delete_device", "get_device_list_updated",
    "create_device", "get_device_list_created", "sync_from", "ssh_fetch_keys",
    "get_device_loopbacks_1", "create_device_loopbacks",
    "get_device_loopbacks_2", "update_device_loopback_ip",
    "get_device_loopbacks_3", "delete_device_loopback",
    "get_device_loopbacks_4", "done">>

\* The statements of main() that call the client, in program order.
Statements ==
  <<"nso", "get_device_list", "if", "delete_device", "get_device_list_updated",
    "create_device", "get_device_list_created", "ssh_fetch_keys", "sync_from",
    "get_device_loopbacks_1", "create_device_loopbacks",
    "get_device_loopbacks_2", "update_device_loopback_ip",
    "get_device_loopbacks_3", "delete_device_loopback",
    "get_device_loopbacks_4", "done">>

After(label) ==
  Statements[(CHOOSE i \in 1..Len(Statements) : Statements[i] = label) + 1]

\* Variant of IfTarget: the membership test is inverted.
IfTarget_inverted(name, list) ==
  IF name \notin Range(list) THEN "delete_device" ELSE "create_device"

\* The branch of line 251.
IfTarget(name, list) ==
  IF name \in Range(list) THEN "delete_device" ELSE "create_device"

\* Key of the response body that the call site of op, or op itself, reads.
ParsedKey ==
  [get_device_list |-> "tailf-ncs:device",
   get_device_loopbacks |-> "tailf-ned-cisco-ios:Loopback",
   ssh_fetch_keys |-> "tailf-ncs:output",
   sync_from |-> "tailf-ncs:output"]

\* response.json()["tailf-ncs:output"]["result"] of lines 270 and 277.
OutputResult(resp) ==
  IF ~IsJson(resp.body) THEN [raised |-> "JSONDecodeError", value |-> ""]
  ELSE IF "tailf-ncs:output" \notin DOMAIN resp.body.doc
  THEN [raised |-> "KeyError", value |-> ""]
  ELSE [raised |-> "none", value |-> resp.body.doc["tailf-ncs:output"].result]

NoArgs == [k \in {} |-> ""]

Log(op, args, r) ==
  [op |-> op, args |-> args, sent |-> r.sent, received |-> r.received,
   raised |-> r.raised, value |-> r.value]

\* Effects of one client call on the call log, the server and the client.
Invoke(op, args, r) ==
  /\ calls' = Append(calls, Log(op, args, r))
  /\ server' = r.srv
  /\ nso' = r.self

Raise(exc) ==
  /\ pc' = "raised"
  /\ exception' = exc

\* Variant of RawCall: the driver stops on a status that is not 2xx.
RawCall_checked(label, op, args, outcomes, before) ==
  /\ pc = label
  /\ \E r \in outcomes :
       /\ Invoke(op, args, r)
       /\ IF r.raised # "none"
          THEN /\ Raise(r.raised)
               /\ stdout' = stdout \o before
               /\ UNCHANGED response
          ELSE /\ response' = r.value
               /\ stdout' = stdout \o before
                              \o <<<<"response: ", r.value.status_code>>>>
               /\ IF Is2xx(r.value.status_code)
                  THEN pc' = After(label) /\ UNCHANGED exception
                  ELSE Raise("SystemExit")
  /\ UNCHANGED device_list

\* A call site `response = nso.<op>(...)` followed by a print of the status.
RawCall(label, op, args, outcomes, before) ==
  /\ pc = label
  /\ \E r \in outcomes :
       /\ Invoke(op, args, r)
       /\ IF r.raised # "none"
          THEN /\ Raise(r.raised)
               /\ stdout' = stdout \o before
               /\ UNCHANGED response
          ELSE /\ pc' = After(label)
               /\ response' = r.value
               /\ stdout' = stdout \o before
                              \o <<<<"response: ", r.value.status_code>>>>
               /\ UNCHANGED exception
  /\ UNCHANGED device_list

\* A call site of an operation endpoint: status, then the result of the body.
OperationCall(label, op, args, outcomes, before) ==
  /\ pc = label
  /\ \E r \in outcomes :
       /\ Invoke(op, args, r)
       /\ IF r.raised # "none"
          THEN /\ Raise(r.raised)
               /\ stdout' = stdout \o before
               /\ UNCHANGED response
          ELSE LET status == <<"response: ", r.value.status_code, " ...">>
                   res == OutputResult(r.value)
               IN /\ response' = r.value
                  /\ IF res.raised # "none"
                     THEN /\ Raise(res.raised)
                          /\ stdout' = stdout \o before \o <<status>>
                     ELSE /\ pc' = After(label)
                          /\ stdout' = stdout \o before
                                         \o <<status, <<"result: ", res.value>>>>
                          /\ UNCHANGED exception
  /\ UNCHANGED device_list

main_nso ==
  /\ pc = "nso"
  /\ nso' = NsoRestConf("admin", "admin", "127.0.0.1", "8080")
  /\ pc' = After("nso")
  /\ UNCHANGED <<device_list, response, stdout, exception, server, calls>>

main_get_device_list ==
  /\ pc = "get_device_list"
  /\ \E r \in get_device_list(nso, server) :
       /\ Invoke("get_device_list", NoArgs, r)
       /\ IF r.raised # "none"
          THEN /\ Raise(r.raised)
               /\ UNCHANGED <<device_list, stdout>>
          ELSE /\ pc' = After("get_device_list")
               /\ device_list' = r.value
               /\ stdout' = Append(stdout, <<"Initial Device List: ", r.value>>)
               /\ UNCHANGED exception
  /\ UNCHANGED response

main_if ==
  /\ pc = "if"
  /\ pc' = IfTarget(new_device.name, device_list)
  /\ UNCHANGED <<nso, device_list, response, stdout, exception, server, calls>>

main_delete_device ==
  RawCall("delete_device", "delete_device", [name |-> new_device.name],
          delete_device(nso, server, new_device.name),
          <<<<"Device ", new_device.name, " already exists, deleting device ... ">>>>)

main_get_device_list_updated ==
  /\ pc = "get_device_list_updated"
  /\ \E r \in get_device_list(nso, server) :
       /\ Invoke("get_device_list", NoArgs, r)
       /\ IF r.raised # "none"
          THEN /\ Raise(r.raised)
               /\ UNCHANGED <<device_list, stdout>>
          ELSE /\ pc' = After("get_device_list_updated")
               /\ device_list' = r.value
               /\ stdout' = Append(stdout, <<"updated Device List: ", r.value>>)
               /\ UNCHANGED exception
  /\ UNCHANGED response

main_create_device ==
  RawCall("create_device", "create_device", new_device,
          create_device(nso, server, new_device.name, new_device.address,
                        new_device.port, new_device.authgroup, new_device.ned),
          <<<<"Creating new Device ", new_device.name, " ... ">>>>)

main_get_device_list_created ==
  /\ pc = "get_device_list_created"
  /\ \E r \in get_device_list(nso, server) :
       /\ Invoke("get_device_list", NoArgs, r)
       /\ IF r.raised # "none"
          THEN /\ Raise(r.raised)
               /\ UNCHANGED stdout
          ELSE /\ pc' = After("get_device_list_created")
               /\ stdout' = Append(stdout, <<"updated Device List: ", r.value>>)
               /\ UNCHANGED exception
  /\ UNCHANGED <<device_list, response>>

main_ssh_fetch_keys ==
  OperationCall("ssh_fetch_keys", "ssh_fetch_keys", [name |-> new_device.name],
                ssh_fetch_keys(nso, server, new_device.name),
                <<<<"Fetching SSH HostKey ... ">>>>)

main_sync_from ==
  OperationCall("sync_from", "sync_from", [name |-> new_device.name],
                sync_from(nso, server, new_device.name),
                <<<<"Sync From Device ... ">>>>)

LoopbackListings ==
  {"get_device_loopbacks_1", "get_device_loopbacks_2",
   "get_device_loopbacks_3", "get_device_loopbacks_4"}

main_get_device_loopbacks ==
  /\ pc \in LoopbackListings
  /\ \E r \in get_device_loopbacks(nso, server, new_device.name) :
       /\ Invoke("get_device_loopbacks", [name |-> new_device.name], r)
       /\ IF r.raised # "none"
          THEN /\ Raise(r.raised)
               /\ stdout' = Append(stdout, <<"Retrieving Device Loopbacks ... ">>)
               /\ UNCHANGED response
          ELSE /\ pc' = After(pc)
               /\ response' = r.value
               /\ stdout' = stdout \o <<<<"Retrieving Device Loopbacks ... ">>,
                                         <<r.value>>>>
               /\ UNCHANGED exception
  /\ UNCHANGED device_list

main_create_device_loopbacks ==
  RawCall("create_device_loopbacks", "create_device_loopbacks", new_loopback,
          create_device_loopbacks(nso, server, new_loopback.device_name,
                                  new_loopback.loopback_name, new_loopback.ip,
                                  new_loopback.subnet),
          <<<<"Creatint new loopback ... ">>>>)

main_update_device_loopback_ip ==
  RawCall("update_device_loopback_ip", "update_device_loopback_ip",
          [device_name |-> "ios1", loopback_name |-> "50", ip |-> "10.11.50.2"],
          update_device_loopback_ip(nso, server, "ios1", "50", "10.11.50.2"),
          <<<<"Update Loopback IP ... ">>>>)

main_delete_device_loopback ==
  RawCall("delete_device_loopback", "delete_device_loopback",
          [device_name |-> "ios1", loopback_name |-> "50"],
          delete_device_loopback(nso, server, "ios1", "50"),
          <<<<"Delete Loopback ... ">>>>)

\* ------------------------------------------------------- initial states
DeviceNamePool == <<"ios1", "ios2", "ios0">>

LoopbackPool ==
  <<Loopback("0", "10.0.0.1", "255.255.255.255"),
    Loopback("50", "10.11.50.9", "255.255.255.0"),
    Loopback("7", "10.0.7.1", "255.255.255.255")>>

\* Configurations of the managed device behind 127.0.0.1:10023.
NetsimConfigs ==
  InjectiveSeqs({ LoopbackPool[i] : i \in 1..MaxLoopbacks }, MaxLoopbacks)

\* A device already in the orchestrator, synced with the managed device.
KnownDevice(name, netsim) ==
  [name |-> name, address |-> "127.0.0.1", port |-> "10023",
   authgroup |-> "netsim_auth",
   ned_id |-> <<"cisco-ios-cli-3.8", ":", "cisco-ios-cli-3.8">>,
   admin_state |-> "unlocked", loopbacks |-> netsim]

Servers ==
  { [devices |-> [i \in 1..Len(ns) |-> KnownDevice(ns[i], netsim)],
     netsim |-> netsim]
    : ns \in InjectiveSeqs({ DeviceNamePool[i] : i \in 1..MaxDevices }, MaxDevices),
      netsim \in NetsimConfigs }

Init ==
  /\ pc = "nso"
  /\ nso = NoClient
  /\ device_list = <<>>
  /\ response = NoResponse
  /\ stdout = <<>>
  /\ exception = "none"
  /\ server \in Servers
  /\ calls = <<>>

Next ==
  \/ main_nso
  \/ main_get_device_list
  \/ main_if
  \/ main_delete_device
  \/ main_get_device_list_updated
  \/ main_create_device
  \/ main_get_device_list_created
  \/ main_ssh_fetch_keys
  \/ main_sync_from
  \/ main_get_device_loopbacks
  \/ main_create_device_loopbacks
  \/ main_update_device_loopback_ip
  \/ main_delete_device_loopback

Spec == Init /\ [][Next]_vars

\* ------------------------------------------------- the client on its own
\* A caller other than main(): up to MaxCalls calls of any client method in
\* any order; like main() it does not catch what a call raises.
DeviceArgs == {"ios1", "ios2"}

LoopbackArgs == {"50", "0"}

Caller(op, args, outcomes) ==
  /\ pc = "caller"
  /\ Len(calls) < MaxCalls
  /\ \E r \in outcomes :
       /\ Invoke(op, args, r)
       /\ IF r.raised # "none" THEN Raise(r.raised) ELSE UNCHANGED <<pc, exception>>
  /\ UNCHANGED <<device_list, response, stdout>>

call_get_device_list ==
  Caller("get_device_list", NoArgs, get_device_list(nso, server))

call_delete_device ==
  \E name \in DeviceArgs :
    Caller("delete_device", [name |-> name], delete_device(nso, server, name))

call_create_device ==
  \E name \in DeviceArgs :
    Caller("create_device", [new_device EXCEPT !.name = name],
           create_device(nso, server, name, new_device.address, new_device.port,
                         new_device.authgroup, new_device.ned))

call_ssh_fetch_keys ==
  \E name \in DeviceArgs :
    Caller("ssh_fetch_keys", [name |-> name], ssh_fetch_keys(nso, server, name))

call_sync_from ==
  \E name \in DeviceArgs :
    Caller("sync_from", [name |-> name], sync_from(nso, server, name))

call_get_device_loopbacks ==
  \E name \in DeviceArgs :
    Caller("get_device_loopbacks", [name |-> name],
           get_device_loopbacks(nso, server, name))

call_create_device_loopbacks ==
  \E device_name \in DeviceArgs, loopback_name \in LoopbackArgs :
    Caller("create_device_loopbacks",
           [new_loopback EXCEPT !.device_name = device_name,
                                !.loopback_name = loopback_name],
           create_device_loopbacks(nso, server, device_name, loopback_name,
                                   new_loopback.ip, new_loopback.subnet))

call_update_device_loopback_ip ==
  \E device_name \in DeviceArgs, loopback_name \in LoopbackArgs :
    Caller("update_device_loopback_ip",
           [device_name |-> device_name, loopback_name |-> loopback_name,
            ip |-> "10.11.50.2"],
           update_device_loopback_ip(nso, server, device_name, loopback_name,
                                     "10.11.50.2"))

call_delete_device_loopback ==
  \E device_name \in DeviceArgs, loopback_name \in LoopbackArgs :
    Caller("delete_device_loopback",
           [device_name |-> device_name, loopback_name |-> loopback_name],
           delete_device_loopback(nso, server, device_name, loopback_name))

\* Servers whose managed device has the single loopback 0.
CallerServers == { s \in Servers : s.netsim = <<LoopbackPool[1]>> }

InitAPI ==
  /\ pc = "caller"
  /\ nso = NsoRestConf("admin", "admin", "127.0.0.1", "8080")
  /\ device_list = <<>>
  /\ response = NoResponse
  /\ stdout = <<>>
  /\ exception = "none"
  /\ server \in CallerServers
  /\ calls = <<>>

NextAPI ==
  \/ call_get_device_list
  \/ call_delete_device
  \/ call_create_device
  \/ call_ssh_fetch_keys
  \/ call_sync_from
  \/ call_get_device_loopbacks
  \/ call_create_device_loopbacks
  \/ call_update_device_loopback_ip
  \/ call_delete_device_loopback

SpecAPI == InitAPI /\ [][NextAPI]_vars

\* ===================================================================
\* Properties of the driver main(), checked under Spec
\* ===================================================================
IsPrefix(s, t) == Len(s) <= Len(t) /\ SubSeq(t, 1, Len(s)) = s

Ops == [i \in 1..Len(calls) |-> calls[i].op]

\* The device names the driver's first call returned (none if it raised).
InitiallyListed == IF Len(calls) >= 1 THEN Range(calls[1].value) ELSE {}

Answered(c) == c.received[1].fault # "transport"

Status(c) == c.received[1].response.status_code

\* No request so far met a connection failure or an internal server error.
AllHonoured == \A i \in 1..Len(calls) : calls[i].received[1].fault = "none"

OrderAsClaimed(deleting) ==
  <<"get_device_list">>
  \o (IF deleting THEN <<"delete_device">> ELSE <<>>)
  \o <<"create_device", "ssh_fetch_keys", "sync_from",
       "get_device_loopbacks", "create_device_loopbacks",
       "get_device_loopbacks", "update_device_loopback_ip",
       "get_device_loopbacks", "delete_device_loopback",
       "get_device_loopbacks">>

OrderInCode(deleting) ==
  <<"get_device_list">>
  \o (IF deleting THEN <<"delete_device", "get_device_list">> ELSE <<>>)
  \o <<"create_device", "get_device_list", "ssh_fetch_keys", "sync_from",
       "get_device_loopbacks", "create_device_loopbacks",
       "get_device_loopbacks", "update_device_loopback_ip",
       "get_device_loopbacks", "delete_device_loopback",
       "get_device_loopbacks">>

\* C1 as stated: the client operations main() has issued are always a prefix
\* of list devices, delete device (only if the name was listed), create
\* device, fetch keys, sync, list loopbacks, create loopback, list loopbacks,
\* update loopback, list loopbacks, delete loopback, list loopbacks, with no
\* other client operation in between.
C1_OrderAsClaimed ==
  IsPrefix(Ops, OrderAsClaimed(new_device.name \in InitiallyListed))

\* C1 amended: the same order with a list-devices call after delete-device
\* and another after create-device; the operations issued are always a
\* prefix of that sequence, and all of it once main() has finished.
C1_OrderInCode ==
  LET order == OrderInCode(new_device.name \in InitiallyListed)
  IN /\ IsPrefix(Ops, order)
     /\ pc = "done" => Ops = order

C1_Witness ==
  /\ pc = "done"
  /\ Len(calls) = 14
  /\ calls[2].op = "delete_device"

\* C2 as stated: no response halts the driver, so main() stops early only
\* when an HTTP call itself raised on a connection failure.
C2_NeverHaltsAsClaimed ==
  pc = "raised" => ~Answered(Last(calls))

StatusOnlySteps ==
  {"delete_device", "create_device", "create_device_loopbacks",
   "update_device_loopback_ip", "delete_device_loopback"}

LacksParsedKey(c) ==
  LET body == c.received[1].response.body
  IN ~IsJson(body) \/ ParsedKey[c.op] \notin DOMAIN body.doc

\* C2 amended: in every step of main() that issues a request which the
\* server answers, the driver stops exactly when the step reads a key that
\* the response body lacks (list devices, fetch keys, sync from, list
\* loopbacks answered with an error body); otherwise, whatever the status
\* code and whatever the reported result, it goes on to the next statement,
\* and a step that only reads the status code prints that code.
C2_FailedStepContinues ==
  [][ (Len(calls') = Len(calls) + 1 /\ Answered(Last(calls'))) =>
        LET c == Last(calls')
        IN IF c.op \in StatusOnlySteps
           THEN /\ pc' = After(pc)
                /\ Last(stdout') = <<"response: ", Status(c)>>
           ELSE IF LacksParsedKey(c)
           THEN pc' = "raised" /\ exception' \in {"KeyError", "JSONDecodeError"}
           ELSE pc' = After(pc) ]_vars

C2_Witness ==
  /\ pc = "done"
  /\ \A i \in 1..Len(calls) :
       calls[i].op \in StatusOnlySteps => ~Is2xx(Status(calls[i]))
  /\ \E i \in 1..Len(calls) :
       /\ calls[i].op = "ssh_fetch_keys"
       /\ calls[i].value.body.doc["tailf-ncs:output"].result = "failed"

DeleteCalls == { i \in 1..Len(calls) : calls[i].op = "delete_device" }

\* C9: main() issues delete-device at most once, and exactly when the new
\* device's name was in the first device list; when every request so far
\* was honoured, the device does not exist on the server at the moment
\* create-device is issued, and create-device is accepted.
C9_DeleteIffListed ==
  /\ Cardinality(DeleteCalls) <= 1
  /\ DeleteCalls # {} => new_device.name \in InitiallyListed
  /\ (new_device.name \in InitiallyListed
        /\ pc \notin {"nso", "get_device_list", "if", "delete_device"})
       => DeleteCalls # {}
  /\ (AllHonoured /\ pc = "create_device")
       => new_device.name \notin Names(server.devices)
  /\ AllHonoured =>
       \A i \in 1..Len(calls) :
         calls[i].op = "create_device" => Status(calls[i]) = 201

C9_Witness ==
  /\ AllHonoured
  /\ pc = "get_device_list_created"
  /\ DeleteCalls # {}
  /\ Cardinality(InitiallyListed) > 1

ListedLoopbacks ==
  LET idx == { i \in 1..Len(calls) : calls[i].op = "get_device_loopbacks" }
      nth[k \in 1..4] ==
        IF k = 1 THEN CHOOSE i \in idx : \A j \in idx : i <= j
        ELSE CHOOSE i \in idx : i > nth[k - 1] /\ \A j \in idx : j > nth[k - 1] => i <= j
  IN [k \in 1..4 |-> calls[nth[k]].value]

SameLoopbacks(list, n, set) == Len(list) = n /\ Range(list) = set

\* C10: when every request was honoured and loopback 50 is not in the first
\* loopback list L1, the four lists main() prints are L1; L1 plus loopback
\* 50 with 10.11.50.1/255.255.255.255; L1 plus loopback 50 with 10.11.50.2
\* and the same mask; and L1 again.
C10_LoopbackLifecycle ==
  (pc = "done" /\ AllHonoured /\ "50" \notin Names(ListedLoopbacks[1])) =>
    LET L == ListedLoopbacks
        n == Len(L[1])
    IN /\ SameLoopbacks(L[2], n + 1, Range(L[1])
            \cup {Loopback("50", "10.11.50.1", "255.255.255.255")})
       /\ SameLoopbacks(L[3], n + 1, Range(L[1])
            \cup {Loopback("50", "10.11.50.2", "255.255.255.255")})
       /\ SameLoopbacks(L[4], n, Range(L[1]))

C10_Witness ==
  /\ pc = "done"
  /\ AllHonoured
  /\ ListedLoopbacks[1] # <<>>
  /\ "50" \notin Names(ListedLoopbacks[1])

\* ===================================================================
\* Properties of the client NsoRestConf, checked under SpecAPI
\* ===================================================================
ClientOps ==
  {"get_device_list", "delete_device", "create_device", "ssh_fetch_keys",
   "sync_from", "get_device_loopbacks", "create_device_loopbacks",
   "update_device_loopback_ip", "delete_device_loopback"}

ListOps == {"get_device_list", "get_device_loopbacks"}

\* The server answered the call with a status outside 200..299.
Non2xx(c) == Answered(c) /\ ~Is2xx(Status(c))

\* C3 as stated: every client operation answered with a non-2xx response
\* returns that response as-is, without raising.
C3_AllReturnAsClaimed ==
  \A i \in 1..Len(calls) :
    Non2xx(calls[i]) =>
      /\ calls[i].raised = "none"
      /\ calls[i].value = calls[i].received[1].response

\* C3 amended: delete device, create device, fetch SSH keys, sync from,
\* create loopback, update loopback IP and delete loopback return a non-2xx
\* response as-is without raising; list devices and list loopbacks return a
\* list extracted from the body, and raise a key-lookup or JSON-decode error
\* on a non-2xx response whose body lacks the array they read.
C3_RawOpsReturnResponse ==
  \A i \in 1..Len(calls) :
    Non2xx(calls[i]) =>
      IF calls[i].op \in ListOps
      THEN LacksParsedKey(calls[i])
             => calls[i].raised \in {"KeyError", "JSONDecodeError"}
      ELSE /\ calls[i].raised = "none"
           /\ calls[i].value = calls[i].received[1].response

C3_Witness ==
  /\ Len(calls) = 2
  /\ calls[1].op = "sync_from" /\ Non2xx(calls[1]) /\ calls[1].raised = "none"
  /\ calls[2].op = "get_device_loopbacks" /\ Non2xx(calls[2])
  /\ calls[2].raised = "KeyError"

\* C4: every call of a client operation puts exactly one HTTP request on the
\* wire and has exactly one exchange with the server, whether the outcome is
\* a success, a non-2xx response or a connection failure.
C4_OneRequestPerCall ==
  \A i \in 1..Len(calls) :
    /\ calls[i].op \in ClientOps
    /\ Len(calls[i].sent) = 1
    /\ Len(calls[i].received) = 1

C4_Witness ==
  /\ Len(calls) = 2
  /\ calls[1].op = "delete_device" /\ Non2xx(calls[1])
  /\ ~Answered(calls[2])

\* C5: when create-loopback(device, name, ip, mask) is accepted and the next
\* call is list-loopbacks of the same device and returns, the returned
\* sequence has an entry with that name whose primary address is that ip.
C5_CreateThenListRoundTrip ==
  \A i \in 1..(Len(calls) - 1) :
    LET c == calls[i]
        l == calls[i + 1]
    IN (/\ c.op = "create_device_loopbacks" /\ c.raised = "none"
        /\ Is2xx(c.value.status_code)
        /\ l.op = "get_device_loopbacks" /\ l.raised = "none"
        /\ l.args.name = c.args.device_name)
         => \E k \in 1..Len(l.value) :
              /\ l.value[k].name = c.args.loopback_name
              /\ l.value[k].ip.address.primary.address = c.args.ip

C5_Witness ==
  /\ Len(calls) = 2
  /\ calls[1].op = "create_device_loopbacks"
  /\ calls[1].args.device_name = "ios2"
  /\ calls[1].raised = "none" /\ Is2xx(calls[1].value.status_code)
  /\ calls[2].op = "get_device_loopbacks" /\ calls[2].raised = "none"
  /\ calls[2].args.name = "ios2"
  /\ Len(calls[2].value) > 1

\* C6: a create-device call for a name the server already has, when the
\* server answers it, returns a non-2xx response to the caller and leaves
\* the server's devices as they were.
C6_CreateExistingRejected ==
  [][ (/\ Len(calls') = Len(calls) + 1
       /\ Last(calls').op = "create_device"
       /\ Answered(Last(calls'))
       /\ Last(calls').args.name \in Names(server.devices))
        => /\ Last(calls').raised = "none"
           /\ ~Is2xx(Last(calls').value.status_code)
           /\ server'.devices = server.devices ]_vars

C6_Witness ==
  /\ Len(calls) = 2
  /\ calls[1].op = "create_device" /\ Status(calls[1]) = 201
  /\ calls[2].op = "create_device" /\ calls[2].args = calls[1].args
  /\ calls[2].raised = "none" /\ calls[2].value.status_code = 409

\* C7: list-devices returns the name of each entry of the response's
\* tailf-ncs:device array, one per entry and in the array's order.
C7_NamesInArrayOrder ==
  \A i \in 1..Len(calls) :
    (calls[i].op = "get_device_list" /\ calls[i].raised = "none") =>
      LET arr == calls[i].received[1].response.body.doc["tailf-ncs:device"]
      IN /\ Len(calls[i].value) = Len(arr)
         /\ \A k \in 1..Len(arr) : calls[i].value[k] = arr[k].name

C7_Witness ==
  \E i \in 1..Len(calls) :
    /\ calls[i].op = "get_device_list" /\ calls[i].raised = "none"
    /\ calls[i].value = <<"ios1", "ios2">>

\* C8: base_url, auth and headers keep the values the constructor gave them
\* through every client operation and outcome, and the client has no other
\* field.
C8_ConnectionParametersFixed ==
  /\ DOMAIN nso = {"base_url", "auth", "headers"}
  /\ nso.base_url = <<"http://", "127.0.0.1", ":", "8080", "/restconf">>
  /\ nso.auth = [username |-> "admin", password |-> "admin"]
  /\ nso.headers = ("Content-Type" :> "application/yang-data+json")

C8_Witness ==
  /\ Len(calls) = 2
  /\ calls[1].op = "update_device_loopback_ip" /\ Status(calls[1]) = 204
  /\ calls[2].raised # "none"

====
